---------------------------- MODULE Spec2Model ----------------------------
(***************************************************************************)
(* Model of the trade-fairness engine of yahoo-fair-trades:                *)
(*   src/fairness.js  computeStartersByPos, tradeImpactForTeam, verdict    *)
(*   src/index.js     requireAuth, POST /api/evaluate (pickStarters,       *)
(*                    removeOutgoing, the provider calls at its awaits)    *)
(*                                                                         *)
(* Player values are the 4-decimal z-scores of valuePlayers; the model     *)
(* takes them as integers (a fixed-point scale), impacts and thresholds of *)
(* verdict as integers in hundredths.                                      *)
(***************************************************************************)
EXTENDS Integers, Sequences, FiniteSets, TLC

VARIABLES
  \* ---- one evaluation, seen from one team (index.js 192-295) ----
  pc,             \* position in the evaluation
  startersByPos,  \* computeStartersByPos(settings): label -> count
  Aall,           \* the team's valued roster, in provider order
  sendA,          \* player keys the team sends away
  incoming,       \* outgoing players of the other team (outgoingB)
  freeAgents,     \* FAall
  pickSorted,     \* pickStarters: the part of `sorted` still to visit
  pickNeed,       \* pickStarters: need
  Astarters,      \* pickStarters: starters
  Abench,         \* pickStarters: bench
  pickSlot,       \* history: <<player, label>> of every pickStarters placement
  argStarters,    \* tradeImpactForTeam: parameter starters
  argBench,       \* tradeImpactForTeam: parameter bench
  sorted,         \* tradeImpactForTeam: the part of `sorted` still to visit
  need,           \* tradeImpactForTeam: need
  chosen,         \* tradeImpactForTeam: chosen
  leftovers,      \* tradeImpactForTeam: leftovers
  faSorted,       \* tradeImpactForTeam: the part of faSorted still to visit
  tradeSlot,      \* history: <<player, label>> of every placement into chosen
  rosterChosen,   \* history: chosen as it stood when the roster pass ended
  rosterNeed,     \* history: need as it stood when the roster pass ended
  ti,             \* the value tradeImpactForTeam returns
  \* ---- verdict (fairness.js 119-127) ----
  tiA, tiB,       \* the two impacts, in hundredths
  opts,           \* the thresholds object: which fields are given, and their values
  result,         \* what verdict returned
  \* ---- computeStartersByPos (fairness.js 60-72) ----
  toVisit,        \* the part of the roster-position list (pos) still to visit
  visited,        \* history: the entries already visited
  out,            \* out: the six slot counts
  outExtra,       \* own properties of out beyond the six labels
  \* ---- two POST /api/evaluate requests in flight (index.js 114-118, 192-295) ----
  yfToken,        \* the user token held by the shared provider client yf
  req             \* per request: session, position, the views its calls were served under

evalVars == <<pc, startersByPos, Aall, sendA, incoming, freeAgents, pickSorted,
              pickNeed, Astarters, Abench, pickSlot, argStarters, argBench,
              sorted, need, chosen, leftovers, faSorted, tradeSlot,
              rosterChosen, rosterNeed, ti>>

verdictVars == <<tiA, tiB, opts, result>>

slotVars == <<toVisit, visited, out, outExtra>>

reqVars == <<yfToken, req>>

vars == <<evalVars, verdictVars, slotVars, reqVars>>

-----------------------------------------------------------------------------
(* Bounds of the model *)

\* a team sends at most MaxSend players away
MaxSend == 1
\* verdict is tried on impacts up to MaxStep steps of 0.05 either side of 0
MaxStep == 30
\* league settings list at most MaxEntries roster positions
MaxEntries == 2

\* the values players are scored with (ties are frequent on purpose)
Values == {0, 1}

\* the lineup slots a league gives one label
Counts == {0, 1}

\* player keys of the team's roster, of the other team's roster, of the free agents
AKeys == <<"a1", "a2", "a3">>
BKeys == <<"b1">>
FKeys == <<"f1", "f2">>

\* eligible-position lists rostered players come with
PosSets == {{"C", "LW"}, {"LW"}, {"G"}}

\* eligible-position lists free agents come with
FreeAgentPosSets == {{"C", "LW"}, {"G"}}

-----------------------------------------------------------------------------
(* Pure helpers *)

\* the slot labels in the declaration order of `out` (fairness.js 62); need is a
\* copy of it, and Object.entries(need) visits the labels in this order
SlotOrder == <<"C", "LW", "RW", "D", "Util", "G">>

SlotLabels == {SlotOrder[i] : i \in 1..Len(SlotOrder)}

\* normalize (index.js 219-223): isGoalie is pos.includes("G")
Player(k, ps, v) == [player_key |-> k, pos |-> ps, isGoalie |-> ("G" \in ps), value |-> v]

Range(s) == {s[i] : i \in 1..Len(s)}

Keys(s) == {s[i].player_key : i \in 1..Len(s)}

RECURSIVE SumValue(_)
SumValue(s) == IF s = <<>> THEN 0 ELSE Head(s).value + SumValue(Tail(s))

\* one step of a stable descending sort: x goes behind every element whose value
\* is at least its own
RECURSIVE InsertDesc(_, _)
InsertDesc(x, s) ==
  IF s = <<>> THEN <<x>>
  ELSE IF Head(s).value >= x.value THEN <<Head(s)>> \o InsertDesc(x, Tail(s))
  ELSE <<x>> \o s

RECURSIVE SortFrom(_, _)
SortFrom(acc, s) == IF s = <<>> THEN acc ELSE SortFrom(InsertDesc(Head(s), acc), Tail(s))

\* a descending sort that is not stable: x goes in front of the elements that tie
\* with it
RECURSIVE InsertBeforeTies(_, _)
InsertBeforeTies(x, s) ==
  IF s = <<>> THEN <<x>>
  ELSE IF Head(s).value > x.value THEN <<Head(s)>> \o InsertBeforeTies(x, Tail(s))
  ELSE <<x>> \o s

RECURSIVE SortTiesReversedFrom(_, _)
SortTiesReversedFrom(acc, s) ==
  IF s = <<>> THEN acc ELSE SortTiesReversedFrom(InsertBeforeTies(Head(s), acc), Tail(s))

SortTiesReversed(s) == SortTiesReversedFrom(<<>>, s)

\* [...withIncoming].sort((a, b) => (b.value || 0) - (a.value || 0)), and the same
\* sort of freeAgents: stable, descending
SortByValueDesc(s) == SortFrom(<<>>, s)

\* a roster visited in provider order, without the sort
PickUnsorted(players) == players

\* pickStarters: [...players].sort((a, b) => (b.value || 0) - (a.value || 0))
PickSort(players) == SortFrom(<<>>, players)

\* eligible, as pickStarters computes it
PickEligible(p, pos) ==
  IF pos = "Util" THEN ~p.isGoalie
  ELSE IF pos = "G" THEN p.isGoalie
  ELSE pos \in p.pos

\* an eligibility test that lets goalies into Util
EligibleUtilForAll(p, pos) ==
  IF pos = "Util" THEN TRUE
  ELSE IF pos = "G" THEN p.isGoalie
  ELSE pos \in p.pos

\* eligible, as tradeImpactForTeam computes it (both loops)
Eligible(p, pos) ==
  IF pos = "Util" THEN ~p.isGoalie
  ELSE IF pos = "G" THEN p.isGoalie
  ELSE pos \in p.pos

\* an inner loop that does not test count > 0
PickFirstSlotAnyCount(p, n) ==
  LET hits == {i \in 1..Len(SlotOrder) : PickEligible(p, SlotOrder[i])}
  IN  IF hits = {} THEN 0 ELSE CHOOSE i \in hits : \A j \in hits : i <= j

\* the inner loop of pickStarters: index in SlotOrder of the first label with
\* count > 0 for which p is eligible, 0 when the loop ends without a break
PickFirstSlot(p, n) ==
  LET hits == {i \in 1..Len(SlotOrder) : n[SlotOrder[i]] > 0 /\ PickEligible(p, SlotOrder[i])}
  IN  IF hits = {} THEN 0 ELSE CHOOSE i \in hits : \A j \in hits : i <= j

\* the inner loop of tradeImpactForTeam (both loops)
FirstSlot(p, n) ==
  LET hits == {i \in 1..Len(SlotOrder) : Eligible(p, SlotOrder[i]) /\ n[SlotOrder[i]] > 0}
  IN  IF hits = {} THEN 0 ELSE CHOOSE i \in hits : \A j \in hits : i <= j

\* need = startersByPos, without the copy
NeedAliasesCaller == TRUE

\* need = { ...startersByPos } in tradeImpactForTeam: a fresh object, so a write
\* to need does not reach the caller's startersByPos
NeedIsCallersObject == FALSE

\* Object.values(need).some((n) => n > 0)
SomeOpen(n) == \E l \in SlotLabels : n[l] > 0

\* removeOutgoing(arr, outgoing)
RECURSIVE RemoveOutgoing(_, _)
RemoveOutgoing(arr, outKeys) ==
  IF arr = <<>> THEN <<>>
  ELSE IF Head(arr).player_key \in outKeys THEN RemoveOutgoing(Tail(arr), outKeys)
  ELSE <<Head(arr)>> \o RemoveOutgoing(Tail(arr), outKeys)

\* sendA.map((k) => Amap[k]).filter(Boolean): keys that are not on the roster drop out
OutgoingKeys(send, roster) == send \cap Keys(roster)

-----------------------------------------------------------------------------
(* Inputs *)

\* the lists of players carrying the keys ks, in that order, with positions from pss
PlayerLists(ks, pss) ==
  {[i \in 1..Len(ks) |-> Player(ks[i], f[i][1], f[i][2])] :
     f \in [1..Len(ks) -> pss \X Values]}

Prefixes(ks) == {SubSeq(ks, 1, n) : n \in 0..Len(ks)}

\* the slot counts a league can configure
SlotConfigs ==
  {[l \in SlotLabels |-> IF l \in {"RW", "D"} THEN 0 ELSE f[l]] :
     f \in [{"C", "LW", "Util", "G"} -> Counts]}

EmptyNeed == [l \in SlotLabels |-> 0]

-----------------------------------------------------------------------------
(* verdict *)

\* the impacts verdict is called with: every multiple of 0.05 from -MaxStep to
\* MaxStep steps (in hundredths)
ImpactGrid == {5 * k : k \in (0 - MaxStep)..MaxStep}

\* the defaults of the destructured third parameter (fairness.js 119), in hundredths
LossTolDefault == -35
GainMinDefault == 25
ImbalanceMaxDefault == 100

Defaults ==
  [lossTol |-> LossTolDefault, gainMin |-> GainMinDefault, imbalanceMax |-> ImbalanceMaxDefault]

ThresholdNames == {"lossTol", "gainMin", "imbalanceMax"}

\* the values a caller gives in place of the defaults
AltThresholds == [lossTol |-> 0, gainMin |-> 50, imbalanceMax |-> 20]

\* { lossTol = -0.35, gainMin = 0.25, imbalanceMax = 1.0 } = {}: a field that is
\* not given takes its default
Threshold(o, name) == IF name \in o.given THEN o.val[name] ELSE Defaults[name]

\* Math.abs
Abs(x) == IF x < 0 THEN 0 - x ELSE x

\* an impact gap measured without Math.abs
VerdictSignedImbalance(a, b, o) ==
  LET bothAboveLossTol == a >= Threshold(o, "lossTol") /\ b >= Threshold(o, "lossTol")
      oneAboveGain == a >= Threshold(o, "gainMin") \/ b >= Threshold(o, "gainMin")
      okImbalance == a - b <= Threshold(o, "imbalanceMax")
  IN  IF bothAboveLossTol /\ oneAboveGain /\ okImbalance
      THEN [status |-> "APPROVE", color |-> "green"]
      ELSE [status |-> "REVIEW", color |-> "yellow"]

\* verdict(tiA, tiB, thresholds)
verdict(a, b, o) ==
  LET lossTol == Threshold(o, "lossTol")
      gainMin == Threshold(o, "gainMin")
      imbalanceMax == Threshold(o, "imbalanceMax")
      imbalance == Abs(a - b)
      bothAboveLossTol == a >= lossTol /\ b >= lossTol
      oneAboveGain == a >= gainMin \/ b >= gainMin
      okImbalance == imbalance <= imbalanceMax
  IN  IF bothAboveLossTol /\ oneAboveGain /\ okImbalance
      THEN [status |-> "APPROVE", color |-> "green"]
      ELSE [status |-> "REVIEW", color |-> "yellow"]

NoResult == [status |-> "", color |-> ""]

VerdictInit ==
  /\ tiA \in ImpactGrid
  /\ tiB \in ImpactGrid
  /\ opts \in [given : SUBSET ThresholdNames, val : {AltThresholds}]
  /\ result = NoResult

\* the handler's call of verdict (index.js 283-287)
CallVerdict ==
  /\ result = NoResult
  /\ result' = verdict(tiA, tiB, opts)
  /\ UNCHANGED <<tiA, tiB, opts>>
  /\ UNCHANGED <<evalVars, slotVars, reqVars>>

-----------------------------------------------------------------------------
(* computeStartersByPos *)

\* property names every object inherits: out[label] !== undefined holds for them
InheritedNames == {"constructor"}

\* the labels league settings use in the model: slot labels, the three labels
\* line 69 folds into Util, an injured-reserve label, an inherited name, and none
EntryPositions == {"C", "Util", "F", "UTIL", "BN", "IR", "constructor", ""}

\* the counts an entry carries
EntryCounts == {0, 1, 2}

\* a roster-position entry: position, name (read when position is empty), and a
\* count that may be missing
Entries ==
  {e \in [position : EntryPositions, name : {"", "G"}, hasCount : BOOLEAN, count : EntryCounts] :
     /\ e.position # "" => e.name = ""
     /\ ~e.hasCount => e.count = 0}

EntryLists == UNION {[1..n -> Entries] : n \in 0..MaxEntries}

\* label = p.position || p?.name || ""
EntryLabel(e) == IF e.position # "" THEN e.position ELSE e.name

\* count = Number(p.count || p?.count || 0) || 0
EntryCount(e) == IF e.hasCount THEN e.count ELSE 0

\* one iteration that folds every label it does not know into Util
AddEntryUnknownToUtil(o, e) ==
  LET label == EntryLabel(e)
      count == EntryCount(e)
  IN  IF count = 0 THEN o
      ELSE IF label \in DOMAIN o THEN [o EXCEPT ![label] = @ + count]
      ELSE [o EXCEPT !["Util"] = @ + count]

\* lines 67-69, on the six slot counts
AddEntry(o, e) ==
  LET label == EntryLabel(e)
      count == EntryCount(e)
  IN  IF count = 0 THEN o
      ELSE IF label \in DOMAIN o THEN [o EXCEPT ![label] = @ + count]
      ELSE IF label \in InheritedNames THEN o
      ELSE IF label \in {"F", "UTIL", "BN"} THEN [o EXCEPT !["Util"] = @ + count]
      ELSE o

\* line 68 on a label that is no slot label although out[label] !== undefined: the
\* += makes it an own property of out, holding a string (no count is > 0 of it)
AddExtra(x, e) ==
  IF EntryCount(e) # 0 /\ (EntryLabel(e) \in InheritedNames \/ EntryLabel(e) \in x)
  THEN x \cup {EntryLabel(e)}
  ELSE x

SlotsInit ==
  /\ toVisit \in EntryLists
  /\ visited = <<>>
  \* line 62
  /\ out = [l \in SlotLabels |-> 0]
  /\ outExtra = {}

\* one iteration of the loop of computeStartersByPos (fairness.js 63-70)
VisitEntry ==
  /\ toVisit # <<>>
  /\ out' = AddEntry(out, Head(toVisit))
  /\ outExtra' = AddExtra(outExtra, Head(toVisit))
  /\ visited' = Append(visited, Head(toVisit))
  /\ toVisit' = Tail(toVisit)
  /\ UNCHANGED <<evalVars, verdictVars, reqVars>>

-----------------------------------------------------------------------------
(* Two POST /api/evaluate requests in flight *)

Requests == {"r1", "r2"}

Users == {"u1", "u2"}

\* provider data: the users whose leagues hold the league LEAGUE_ID / LEAGUE_NAME names
LeagueMembers == {"u1"}

IdleRequest ==
  [pc |-> "idle", token |-> "none", leagueKey |-> FALSE, views |-> <<>>,
   resp |-> [status |-> "", views |-> <<>>]]

\* a request as it reaches requireAuth: its session holds a token or not, and the
\* league key is known (req.session.leagueKey or LEAGUE_KEY) or not
ArrivingRequests ==
  {[pc |-> "arriving", token |-> t, leagueKey |-> k, views |-> <<>>,
    resp |-> [status |-> "", views |-> <<>>]] : t \in Users \cup {"none"}, k \in BOOLEAN}

RequestsInit ==
  /\ yfToken = "none"
  /\ req \in [Requests -> ArrivingRequests]

\* a call on the shared client yf is served under the token yf holds when the
\* call is made
Call(what, tok) == <<what, tok>>

\* requireAuth (index.js 114-118), then the handler up to its first await that
\* waits for the provider (index.js 193-201)
Arrive(r) ==
  /\ req[r].pc = "arriving"
  /\ IF req[r].token = "none"
     THEN /\ req' = [req EXCEPT ![r].pc = "done",
                                ![r].resp = [status |-> "401", views |-> <<>>]]
          /\ yfToken' = yfToken
     ELSE /\ yfToken' = req[r].token
          /\ IF req[r].leagueKey
             THEN req' = [req EXCEPT ![r].pc = "awaitLeague",
                                     ![r].views = Append(@, Call("league", req[r].token))]
             ELSE req' = [req EXCEPT ![r].pc = "awaitGames",
                                     ![r].views = Append(@, Call("games", req[r].token))]
  /\ UNCHANGED <<evalVars, verdictVars, slotVars>>

\* resolveLeagueKey: yf.user.games() has answered, yf.user.game_leagues is called
\* (index.js 129-134)
GamesReturn(r) ==
  /\ req[r].pc = "awaitGames"
  /\ req' = [req EXCEPT ![r].pc = "awaitLeagues",
                        ![r].views = Append(@, Call("leagues", yfToken))]
  /\ UNCHANGED <<yfToken, evalVars, verdictVars, slotVars>>

\* resolveLeagueKey: the leagues have answered (index.js 135-145); with a match
\* the handler goes on to its Promise.all (195-201), without one it answers 400
LeaguesReturn(r) ==
  /\ req[r].pc = "awaitLeagues"
  /\ LET served == req[r].views[Len(req[r].views)][2]
     IN  IF served \in LeagueMembers
         THEN req' = [req EXCEPT ![r].pc = "awaitLeague",
                                 ![r].leagueKey = TRUE,
                                 ![r].views = Append(@, Call("league", yfToken))]
         ELSE req' = [req EXCEPT ![r].pc = "done",
                                 ![r].resp = [status |-> "400", views |-> <<>>]]
  /\ UNCHANGED <<yfToken, evalVars, verdictVars, slotVars>>

\* settings, teams and free agents have answered; yf.team.roster(teamAKey) is
\* called (index.js 203-206)
LeagueReturn(r) ==
  /\ req[r].pc = "awaitLeague"
  /\ req' = [req EXCEPT ![r].pc = "awaitRosterA",
                        ![r].views = Append(@, Call("rosterA", yfToken))]
  /\ UNCHANGED <<yfToken, evalVars, verdictVars, slotVars>>

\* yf.team.roster(teamBKey) is called (index.js 207)
RosterAReturn(r) ==
  /\ req[r].pc = "awaitRosterA"
  /\ req' = [req EXCEPT ![r].pc = "awaitRosterB",
                        ![r].views = Append(@, Call("rosterB", yfToken))]
  /\ UNCHANGED <<yfToken, evalVars, verdictVars, slotVars>>

\* the synchronous rest of the handler (index.js 209-294): the response is
\* computed from what the calls returned
RosterBReturn(r) ==
  /\ req[r].pc = "awaitRosterB"
  /\ req' = [req EXCEPT ![r].pc = "done",
                        ![r].resp = [status |-> "200", views |-> req[r].views]]
  /\ UNCHANGED <<yfToken, evalVars, verdictVars, slotVars>>

-----------------------------------------------------------------------------
(* The evaluation of one team *)

EvalInit ==
  /\ pc = "pick"
  /\ startersByPos \in SlotConfigs
  /\ Aall \in PlayerLists(AKeys, PosSets)
  \* pickStarters, lines 241-243
  /\ pickSorted = PickSort(Aall)
  /\ pickNeed = startersByPos
  /\ Astarters = <<>>
  /\ Abench = <<>>
  /\ pickSlot = {}
  /\ sendA = {}
  /\ incoming = <<>>
  /\ freeAgents = <<>>
  /\ argStarters = <<>>
  /\ argBench = <<>>
  /\ sorted = <<>>
  /\ need = EmptyNeed
  /\ chosen = <<>>
  /\ leftovers = <<>>
  /\ faSorted = <<>>
  /\ tradeSlot = {}
  /\ rosterChosen = <<>>
  /\ rosterNeed = EmptyNeed
  /\ ti = 0

\* one iteration of the loop of pickStarters (index.js 244-251)
PickStep ==
  /\ pc = "pick"
  /\ pickSorted # <<>>
  /\ LET p == Head(pickSorted)
         i == PickFirstSlot(p, pickNeed)
         n == IF i > 0 THEN [pickNeed EXCEPT ![SlotOrder[i]] = @ - 1] ELSE pickNeed
     IN  /\ pickNeed' = n
         /\ startersByPos' = startersByPos
         /\ Astarters' = IF i > 0 THEN Append(Astarters, p) ELSE Astarters
         /\ pickSlot' = IF i > 0 THEN pickSlot \cup {<<p, SlotOrder[i]>>}
                        ELSE pickSlot
         /\ Abench' = IF i > 0 THEN Abench ELSE Append(Abench, p)
         /\ pickSorted' = Tail(pickSorted)
  /\ UNCHANGED <<pc, Aall, sendA, incoming, freeAgents, argStarters,
                 argBench, sorted, need, chosen, leftovers, faSorted, tradeSlot,
                 rosterChosen, rosterNeed, ti>>
  /\ UNCHANGED <<verdictVars, slotVars, reqVars>>

\* strength: fairness.js 114
Strength(ch) == SumValue(ch)

\* baseline: fairness.js 115, over the parameter starters
Baseline(st) == SumValue(st)

\* the difference taken the wrong way round
ImpactSignSlip(ch, st) == Baseline(st) - Strength(ch)

\* fairness.js 114-116
Impact(ch, st) == Strength(ch) - Baseline(st)

\* the free-agent pools the provider can list when inc was received: a trade
\* brings at most Len(FKeys) players from outside the roster into play
FreeAgentLists(inc) ==
  UNION {PlayerLists(ks, FreeAgentPosSets) :
           ks \in {k \in Prefixes(FKeys) : Len(inc) + Len(k) <= Len(FKeys)}}

\* the roster loop has ended with chosen ch and need n: the test of line 98 and
\* the sort of line 99; with nothing to backfill the function returns (114-116).
\* freeAgents is first read here, and this is where the model draws it.
LeaveRosterLoop(ch, n, inc, st) ==
  /\ rosterChosen' = ch
  /\ rosterNeed' = n
  /\ \E fa \in FreeAgentLists(inc) :
       /\ freeAgents' = fa
       /\ IF SomeOpen(n) /\ fa # <<>>
          THEN /\ faSorted' = SortByValueDesc(fa)
               /\ pc' = "backfill"
               /\ ti' = ti
          ELSE /\ faSorted' = <<>>
               /\ pc' = "done"
               /\ ti' = Impact(ch, st)

\* the trades a request can propose, seen from this team: the keys it sends and
\* the players it receives
TradeInputs ==
  [send : {s \in SUBSET Range(AKeys) : Cardinality(s) <= MaxSend},
   incoming : UNION {PlayerLists(ks, PosSets) : ks \in Prefixes(BKeys)}]

\* pickStarters returns; the handler removes the outgoing players and calls
\* tradeImpactForTeam, which runs up to its first loop
\* (index.js 252-273, fairness.js 75-81)
CallTradeImpact ==
  /\ pc = "pick"
  /\ pickSorted = <<>>
  /\ \E t \in TradeInputs :
       LET outgoing == OutgoingKeys(t.send, Aall)
           s == RemoveOutgoing(Astarters, outgoing)
           b == RemoveOutgoing(Abench, outgoing)
           srt == SortByValueDesc(s \o b \o t.incoming)
       IN  /\ sendA' = t.send
           /\ incoming' = t.incoming
           /\ argStarters' = s
           /\ argBench' = b
           /\ sorted' = srt
           /\ need' = startersByPos
           /\ chosen' = <<>>
           /\ leftovers' = <<>>
           /\ IF srt = <<>>
              THEN LeaveRosterLoop(<<>>, startersByPos, t.incoming, s)
              ELSE /\ pc' = "roster"
                   /\ UNCHANGED <<freeAgents, faSorted, rosterChosen, rosterNeed, ti>>
  /\ UNCHANGED <<startersByPos, Aall, pickSorted, pickNeed, Astarters, Abench,
                 pickSlot, tradeSlot>>
  /\ UNCHANGED <<verdictVars, slotVars, reqVars>>

\* one iteration of the roster loop of tradeImpactForTeam (fairness.js 83-96)
RosterStep ==
  /\ pc = "roster"
  /\ sorted # <<>>
  /\ LET p == Head(sorted)
         i == FirstSlot(p, need)
         ch == IF i > 0 THEN Append(chosen, p) ELSE chosen
         n == IF i > 0 THEN [need EXCEPT ![SlotOrder[i]] = @ - 1] ELSE need
     IN  /\ chosen' = ch
         /\ need' = n
         /\ tradeSlot' = IF i > 0 THEN tradeSlot \cup {<<p, SlotOrder[i]>>}
                         ELSE tradeSlot
         /\ startersByPos' = IF NeedIsCallersObject THEN n ELSE startersByPos
         /\ leftovers' = IF i > 0 THEN leftovers ELSE Append(leftovers, p)
         /\ sorted' = Tail(sorted)
         /\ IF Tail(sorted) = <<>>
            THEN LeaveRosterLoop(ch, n, incoming, argStarters)
            ELSE UNCHANGED <<pc, freeAgents, faSorted, rosterChosen, rosterNeed, ti>>
  /\ UNCHANGED <<Aall, sendA, incoming, pickSorted, pickNeed, Astarters, Abench,
                 pickSlot, argStarters, argBench>>
  /\ UNCHANGED <<verdictVars, slotVars, reqVars>>

\* one iteration of the free-agent loop (fairness.js 100-111); after its break, or
\* after the last free agent, the function returns (114-116)
BackfillStep ==
  /\ pc = "backfill"
  /\ faSorted # <<>>
  /\ LET p == Head(faSorted)
         i == FirstSlot(p, need)
         ch == IF i > 0 THEN Append(chosen, p) ELSE chosen
         n == IF i > 0 THEN [need EXCEPT ![SlotOrder[i]] = @ - 1] ELSE need
     IN  /\ chosen' = ch
         /\ need' = n
         /\ tradeSlot' = IF i > 0 THEN tradeSlot \cup {<<p, SlotOrder[i]>>}
                         ELSE tradeSlot
         /\ startersByPos' = IF NeedIsCallersObject THEN n ELSE startersByPos
         /\ faSorted' = Tail(faSorted)
         /\ IF ~SomeOpen(n) \/ Tail(faSorted) = <<>>
            THEN /\ pc' = "done"
                 /\ ti' = Impact(ch, argStarters)
            ELSE UNCHANGED <<pc, ti>>
  /\ UNCHANGED <<Aall, sendA, incoming, freeAgents, pickSorted,
                 pickNeed, Astarters, Abench, pickSlot, argStarters, argBench,
                 sorted, leftovers, rosterChosen, rosterNeed>>
  /\ UNCHANGED <<verdictVars, slotVars, reqVars>>

VerdictIdle ==
  /\ tiA = 0
  /\ tiB = 0
  /\ opts = [given |-> {}, val |-> AltThresholds]
  /\ result = NoResult

SlotsIdle ==
  /\ toVisit = <<>>
  /\ visited = <<>>
  /\ out = EmptyNeed
  /\ outExtra = {}

RequestsIdle ==
  /\ yfToken = "none"
  /\ req = [r \in Requests |-> IdleRequest]

EvalIdle ==
  /\ pc = "idle"
  /\ startersByPos = EmptyNeed
  /\ Aall = <<>>
  /\ pickSorted = <<>>
  /\ pickNeed = EmptyNeed
  /\ Astarters = <<>>
  /\ Abench = <<>>
  /\ pickSlot = {}
  /\ sendA = {}
  /\ incoming = <<>>
  /\ freeAgents = <<>>
  /\ argStarters = <<>>
  /\ argBench = <<>>
  /\ sorted = <<>>
  /\ need = EmptyNeed
  /\ chosen = <<>>
  /\ leftovers = <<>>
  /\ faSorted = <<>>
  /\ tradeSlot = {}
  /\ rosterChosen = <<>>
  /\ rosterNeed = EmptyNeed
  /\ ti = 0

Next ==
  \/ PickStep
  \/ CallTradeImpact
  \/ RosterStep
  \/ BackfillStep

Init == EvalInit /\ VerdictIdle /\ SlotsIdle /\ RequestsIdle

\* one team's side of one evaluation
Spec == Init /\ [][Next]_vars

InitVerdict == VerdictInit /\ EvalIdle /\ SlotsIdle /\ RequestsIdle

NextVerdict == CallVerdict

\* verdict on its own
SpecVerdict == InitVerdict /\ [][NextVerdict]_vars

InitSlots == SlotsInit /\ EvalIdle /\ VerdictIdle /\ RequestsIdle

NextSlots == VisitEntry

\* computeStartersByPos on its own
SpecSlots == InitSlots /\ [][NextSlots]_vars

InitRequests == RequestsInit /\ EvalIdle /\ VerdictIdle /\ SlotsIdle

NextRequests ==
  \E r \in Requests :
    \/ Arrive(r)
    \/ GamesReturn(r)
    \/ LeaguesReturn(r)
    \/ LeagueReturn(r)
    \/ RosterAReturn(r)
    \/ RosterBReturn(r)

\* two evaluations in flight on one server
SpecRequests == InitRequests /\ [][NextRequests]_vars

-----------------------------------------------------------------------------
(* Vocabulary of the claims *)

\* eligibility as the specification words it
SpecEligible(p, l) ==
  CASE l = "Util" -> ~p.isGoalie
    [] l = "G" -> p.isGoalie
    [] OTHER -> l \in p.pos

\* the first label, in the order C, LW, RW, D, Util, G, that is open in n and that
\* p is eligible for; "none" when there is no such label
FirstOpenLabel(p, n) ==
  LET order == <<"C", "LW", "RW", "D", "Util", "G">>
      ok(i) == n[order[i]] > 0 /\ SpecEligible(p, order[i])
  IN  IF \E i \in 1..6 : ok(i)
      THEN order[CHOOSE i \in 1..6 : ok(i) /\ \A j \in 1..(i - 1) : ~ok(j)]
      ELSE "none"

\* how many placements a history records for label l
Placed(slots, l) == Cardinality({e \in slots : e[2] = l})

NoRepeat(s) == Cardinality(Keys(s)) = Len(s)

PickDone == pickSorted = <<>>

RosterPassDone == pc \in {"backfill", "done"}

\* the free agents the backfill put into chosen
Backfilled == SubSeq(chosen, Len(rosterChosen) + 1, Len(chosen))

-----------------------------------------------------------------------------
(* C1 *)

\* C1: verdict returns APPROVE exactly when both impacts are >= lossTol, one of
\* them is >= gainMin and their gap is <= imbalanceMax in either direction, and
\* REVIEW otherwise, never a third status; under the defaults (0.30, 0.10) is
\* APPROVE and (0.30, -0.50), (0.10, 0.05), (1.50, 0.30) are REVIEW
C1_VerdictRule ==
  result # NoResult =>
    LET lossTol == IF "lossTol" \in opts.given THEN opts.val.lossTol ELSE -35
        gainMin == IF "gainMin" \in opts.given THEN opts.val.gainMin ELSE 25
        imbalanceMax == IF "imbalanceMax" \in opts.given THEN opts.val.imbalanceMax ELSE 100
        approve == /\ tiA >= lossTol /\ tiB >= lossTol
                   /\ (tiA >= gainMin \/ tiB >= gainMin)
                   /\ tiA - tiB <= imbalanceMax /\ tiB - tiA <= imbalanceMax
    IN  /\ result.status \in {"APPROVE", "REVIEW"}
        /\ result.status = "APPROVE" <=> approve
        /\ opts.given = {} =>
             /\ (tiA = 30 /\ tiB = 10) => result.status = "APPROVE"
             /\ (tiA = 30 /\ tiB = -50) => result.status = "REVIEW"
             /\ (tiA = 10 /\ tiB = 5) => result.status = "REVIEW"
             /\ (tiA = 150 /\ tiB = 30) => result.status = "REVIEW"

\* verdict has approved (0.30, 0.10) under the defaults
C1_Witness ==
  /\ result.status = "APPROVE"
  /\ tiA = 30
  /\ tiB = 10
  /\ opts.given = {}

-----------------------------------------------------------------------------
(* C5 *)

\* C5: whatever the interleaving of two requests at their awaits, every provider
\* call of a request is served under that request's own token, and a request
\* that has answered gave the answer it gives when it runs alone
C5_NoInterference ==
  \A r \in Requests :
    /\ \A i \in 1..Len(req[r].views) : req[r].views[i][2] = req[r].token
    /\ (req[r].pc = "done" /\ req[r].views # <<>>) =>
         \/ req[r].resp.status = "400" /\ req[r].token \notin LeagueMembers
         \/ /\ req[r].resp.status = "200"
            /\ \A i \in 1..Len(req[r].resp.views) : req[r].resp.views[i][2] = req[r].token

-----------------------------------------------------------------------------
(* C6 *)

\* the sum of the counts of the visited entries whose label is in ls
RECURSIVE C6_Sum(_, _)
C6_Sum(es, ls) ==
  IF es = <<>> THEN 0
  ELSE (IF (IF Head(es).position # "" THEN Head(es).position ELSE Head(es).name) \in ls
           /\ Head(es).hasCount
        THEN Head(es).count ELSE 0) + C6_Sum(Tail(es), ls)

\* C6 as stated: each slot count is the sum of the counts of the entries that
\* carry exactly that label; every other entry leaves the counts as they are
C6_AsStated == \A l \in SlotLabels : out[l] = C6_Sum(visited, {l})

\* C6 amended: an entry labelled F, UTIL or BN counts towards Util. C, LW, RW, D
\* and G are each the sum of the counts of the entries with exactly that label,
\* Util is the sum over the entries labelled Util, F, UTIL or BN, and an entry
\* with any other label, or with a zero or missing count, changes no slot count
C6_SlotCounts ==
  /\ \A l \in SlotLabels \ {"Util"} : out[l] = C6_Sum(visited, {l})
  /\ out["Util"] = C6_Sum(visited, {"Util", "F", "UTIL", "BN"})
  /\ DOMAIN out = SlotLabels

\* a list with a bench entry, an unknown label and an entry without count
C6_Witness ==
  /\ toVisit = <<>>
  /\ Len(visited) = 2
  /\ \E i \in 1..2 : visited[i].position = "BN" /\ visited[i].count = 2
  /\ \E i \in 1..2 : visited[i].position \in {"IR", "constructor"} /\ visited[i].count > 0
  /\ out["Util"] = 2

-----------------------------------------------------------------------------
(* C2 *)

\* C2: the baseline subtracted from the post-trade strength is the value of the
\* pre-trade starters (Astarters, as pickStarters returned them, players the team
\* sends away included): impact = strength - SumValue(Astarters)
C2_BaselineIsPreTradeLineup ==
  pc = "done" => ti = SumValue(chosen) - SumValue(Astarters)

-----------------------------------------------------------------------------
(* C3 *)

\* C3: after every step of pickStarters no label holds more starters than its
\* configured count, starters and bench are disjoint and hold each player once,
\* every roster player is in exactly one of starters, bench and the part still to
\* visit, and when the pass has ended starters and bench together are the roster
C3_PickStartersPartition ==
  /\ \A l \in SlotLabels :
       /\ Placed(pickSlot, l) <= startersByPos[l]
       /\ Placed(pickSlot, l) = startersByPos[l] - pickNeed[l]
  /\ Cardinality(pickSlot) = Len(Astarters)
  /\ {e[1] : e \in pickSlot} = Range(Astarters)
  /\ NoRepeat(Astarters \o Abench \o pickSorted)
  /\ Range(Astarters) \cup Range(Abench) \cup Range(pickSorted) = Range(Aall)
  /\ PickDone => /\ Range(Astarters) \cup Range(Abench) = Range(Aall)
                 /\ Range(Astarters) \cap Range(Abench) = {}

\* a finished split with starters, a bench, and a label filled to its count
C3_Witness ==
  /\ PickDone
  /\ Len(Astarters) >= 2
  /\ Abench # <<>>
  /\ \E l \in SlotLabels : startersByPos[l] > 0 /\ pickNeed[l] = 0

-----------------------------------------------------------------------------
(* C4 *)

\* the team sends exactly its lowest-value bench player and receives one player
C4_Case ==
  /\ pc = "done"
  /\ Len(incoming) = 1
  /\ \E sent \in Range(Abench) :
       /\ sendA = {sent.player_key}
       /\ \A b \in Range(Abench) : sent.value <= b.value

\* the pre-trade starters that are not in the post-trade lineup
C4_Leavers == {p \in Range(Astarters) : p.player_key \notin Keys(chosen)}

\* C4 as stated: in that case the impact is 0 when the received player is not in
\* the lineup, and when the player unseats a starter it is positive and equal to
\* the received value minus the value of the starter who leaves
C4_AsStated ==
  C4_Case =>
    LET r == incoming[1]
    IN  /\ r.player_key \notin Keys(chosen) => ti = 0
        /\ (r.player_key \in Keys(chosen) /\ C4_Leavers # {}) =>
             /\ ti > 0
             /\ \E q \in C4_Leavers : C4_Leavers = {q} /\ ti = r.value - q.value

\* C4 amended: the free agents backfilled into slots the roster leaves open count
\* too. The impact is the sum of their values when the received player is not in
\* the lineup; when the player unseats a starter, exactly one starter leaves, the
\* received value exceeds that starter's, and the impact is the difference plus
\* the backfilled values
C4_BenchTradeImpact ==
  C4_Case =>
    LET r == incoming[1]
    IN  /\ r.player_key \notin Keys(chosen) => ti = SumValue(Backfilled)
        /\ (r.player_key \in Keys(chosen) /\ C4_Leavers # {}) =>
             \E q \in C4_Leavers :
               /\ C4_Leavers = {q}
               /\ r.value - q.value > 0
               /\ ti = (r.value - q.value) + SumValue(Backfilled)

\* the received player took a slot, a starter moved to another label, and a
\* third player left the lineup
C4_Witness ==
  /\ C4_Case
  /\ incoming[1].player_key \in Keys(chosen)
  /\ C4_Leavers # {}
  /\ \E e1 \in pickSlot, e2 \in tradeSlot : e1[1] = e2[1] /\ e1[2] # e2[2]

-----------------------------------------------------------------------------
(* C7 *)

\* C7: with roster, received players and free agents pairwise disjoint, in every
\* state of tradeImpactForTeam no player is in chosen twice and no label holds
\* more chosen players than its configured count; when the function returns, no
\* free agent outside chosen is eligible for a label with an open count; and the
\* caller's startersByPos is never written
C7_State ==
  (/\ Keys(Aall) \cap Keys(incoming) = {}
   /\ Keys(Aall) \cap Keys(freeAgents) = {}
   /\ Keys(incoming) \cap Keys(freeAgents) = {}) =>
    /\ NoRepeat(chosen)
    /\ Cardinality(tradeSlot) = Len(chosen)
    /\ \A l \in SlotLabels :
         /\ Placed(tradeSlot, l) <= startersByPos[l]
         /\ pc # "pick" => Placed(tradeSlot, l) = startersByPos[l] - need[l]
    /\ pc = "done" =>
         \A p \in Range(freeAgents) :
           p.player_key \notin Keys(chosen) =>
             \A l \in SlotLabels : SpecEligible(p, l) => need[l] <= 0

C7_TradeImpactSlots == [](C7_State) /\ [][startersByPos' = startersByPos]_vars

\* the backfill placed one free agent, passed over another, and returned with a
\* slot still open
C7_Witness ==
  /\ pc = "done"
  /\ Len(Backfilled) = 1
  /\ Len(freeAgents) = 2
  /\ rosterChosen # <<>>
  /\ SomeOpen(need)

-----------------------------------------------------------------------------
(* C8 *)

\* every recorded placement respects eligibility
C8_Placements ==
  \A e \in pickSlot \cup tradeSlot :
    /\ e[2] = "Util" => ~e[1].isGoalie
    /\ e[2] = "G" => e[1].isGoalie
    /\ e[2] \notin {"Util", "G"} => e[2] \in e[1].pos

\* what one iteration over player p does to a lineup list, its history and need
C8_Places(p, n, lineup, lineup2, slots, slots2, n2) ==
  LET l == FirstOpenLabel(p, n)
  IN  IF l = "none"
      THEN lineup2 = lineup /\ slots2 = slots /\ n2 = n
      ELSE /\ lineup2 = Append(lineup, p)
           /\ slots2 = slots \cup {<<p, l>>}
           /\ n2 = [n EXCEPT ![l] = @ - 1]

C8_Step ==
  /\ (pc = "pick" /\ pickSorted # <<>>) =>
       C8_Places(Head(pickSorted), pickNeed, Astarters, Astarters', pickSlot, pickSlot', pickNeed')
  /\ (pc = "roster" /\ sorted # <<>>) =>
       C8_Places(Head(sorted), need, chosen, chosen', tradeSlot, tradeSlot', need')
  /\ (pc = "backfill" /\ faSorted # <<>>) =>
       C8_Places(Head(faSorted), need, chosen, chosen', tradeSlot, tradeSlot', need')

\* C8: in pickStarters and in both loops of tradeImpactForTeam every player goes
\* into the first label, in the order C, LW, RW, D, Util, G, that has a remaining
\* count > 0 and that the player is eligible for (and into none when there is no
\* such label); so no goalie is in a Util slot, no skater in a G slot, and any
\* other label is among the positions of the player placed in it
C8_FirstEligibleSlot == [](C8_Placements) /\ [][C8_Step]_vars

\* a free agent went to Util, a C/LW skater of the roster to LW because C was
\* taken, and a goalie to G
C8_Witness ==
  /\ pc = "done"
  /\ \E e \in tradeSlot : e[2] = "Util" /\ e[1] \in Range(freeAgents)
  /\ \E e \in pickSlot : e[2] = "LW" /\ "C" \in e[1].pos /\ startersByPos["C"] > 0
  /\ \E e \in tradeSlot : e[2] = "G"

-----------------------------------------------------------------------------
(* C9 *)

C9_EmptyTrade == sendA = {} /\ incoming = <<>>

\* C9: when the team sends nobody and receives nobody, the roster pass chooses
\* exactly the pre-trade starters, so the impact is the sum of the values of the
\* backfilled free agents, and 0 when the roster fills every slot
C9_EmptyTradeIsStable ==
  (C9_EmptyTrade /\ RosterPassDone) =>
    /\ Keys(rosterChosen) = Keys(Astarters)
    /\ Len(rosterChosen) = Len(Astarters)
    /\ pc = "done" =>
         /\ ti = SumValue(Backfilled)
         /\ ~SomeOpen(rosterNeed) => ti = 0

\* an empty trade over a roster with tied values, a bench and a backfilled slot
C9_Witness ==
  /\ C9_EmptyTrade
  /\ pc = "done"
  /\ Abench # <<>>
  /\ \E i, j \in 1..Len(Aall) : i # j /\ Aall[i].value = Aall[j].value
                                  /\ Aall[i] \in Range(Astarters)
                                  /\ Aall[j] \in Range(Abench)
  /\ ti > 0

-----------------------------------------------------------------------------
(* C10 *)

\* no player of rest is eligible for a label open in n, and none outranks a
\* player that the history slots records in a label the player is eligible for
C10_NoneCouldStart(rest, n, slots) ==
  \A p \in Range(rest) :
    \A l \in SlotLabels :
      SpecEligible(p, l) =>
        /\ n[l] <= 0
        /\ \A e \in slots : e[2] = l => e[1].value >= p.value

\* C10: after pickStarters, and after the roster pass of tradeImpactForTeam, no
\* bench (leftover) player is eligible for a label with an open count, and every
\* starter in a label that a bench (leftover) player is eligible for has a value
\* at least that player's
C10_BenchCannotStart ==
  /\ PickDone => C10_NoneCouldStart(Abench, pickNeed, pickSlot)
  /\ RosterPassDone =>
       C10_NoneCouldStart(leftovers, rosterNeed,
                          {e \in tradeSlot : e[1] \in Range(rosterChosen)})

\* a received player was left over although it outranks a starter of another label
C10_Witness ==
  /\ RosterPassDone
  /\ \E p \in Range(leftovers) :
       /\ p \in Range(incoming)
       /\ \E q \in Range(rosterChosen) : q.value < p.value
  /\ Abench # <<>>

=============================================================================
